---- MODULE Spec2Model ----
(***************************************************************************)
(* Model of ia_models/ia_model_components.py: the Dimroth-Watson           *)
(* distribution (normalisation, density, rejection sampler), the p -> k    *)
(* mapping and axes_correlated_with_z.                                     *)
(*                                                                         *)
(* Numbers.  A float that can take either sign (k, p, x, y, uniform draws, *)
(* results) is an integer counting thousandths, with the two sentinels     *)
(* inf and nan.  A float that is never negative (densities, normalisation, *)
(* exp values) is a record holding the natural logarithm of the value in   *)
(* thousandths, so that float64 overflow (ln > 709.782) and underflow to   *)
(* zero (ln < -745.133) happen in the model where they happen in the       *)
(* program; products and quotients are sums and differences of logarithms. *)
(***************************************************************************)
EXTENDS Integers, Sequences, FiniteSets, TLC

MaxSize == 2

max_iter == 100

inf == 2147483647

nan == inf - 1

TanHalfPi == 2000000000

VARIABLES pc, caller, callNo, first, seed, rngPos,
          p, phi, k, size, result, uran0, mask, kk,
          n_sucess, n_remaining, n_iter, uran1, uran2, uran3, y, keep,
          warned, raised, out, fnIn, fnOut,
          outer, input_vectors, z_correlated_axes,
          x_obs, ptol, fit_max_iter, p0, p1, num_iter, dp, continue_loop,
          r_memb,
          component, prim_gal_axis, param_dict, kwargs,
          A_v, B_v, C_v, major_v, inter_v, minor_v,
          _Lbox, table, r_vec, r, warnings

rvsVars == <<k, size, result, uran0, mask, kk, n_sucess, n_remaining, n_iter,
             uran1, uran2, uran3, y, keep>>

\* axes_correlated_with_input_vector: whether it is the function called,
\* its input_vectors and the value axes_correlated_with_z returned to it
rotVars == <<outer, input_vectors, z_correlated_axes>>

\* fit_watson_mixture_model: its arguments x, ptol and max_iter, its locals
\* p0, p1, num_iter, dp and continue_loop, and the membership r handed to
\* the minimiser
fitVars == <<x_obs, ptol, fit_max_iter, p0, p1, num_iter, dp, continue_loop,
             r_memb>>

\* a satellite component's box size, the table of a call in table mode as
\* the call leaves it, the radial vectors and distances of
\* get_radial_vector, and the warnings issued by the component's methods
radVars == <<_Lbox, table, r_vec, r, warnings>>

\* an alignment component: the class constructed, its prim_gal_axis and
\* param_dict, the keyword arguments of the assign call and its locals
compVars == <<component, prim_gal_axis, param_dict, kwargs,
              A_v, B_v, C_v, major_v, inter_v, minor_v, radVars>>

extVars == <<fitVars, compVars>>

vars == <<pc, caller, callNo, first, seed, rngPos, p, phi,
          k, size, result, uran0, mask, kk, n_sucess, n_remaining, n_iter,
          uran1, uran2, uran3, y, keep, warned, raised, out, fnIn, fnOut,
          rotVars, extVars>>

(***************************************************************************)
(* Signed floats: thousandths, inf, -inf, nan.                             *)
(***************************************************************************)
Abs(a) == IF a < 0 THEN 0 - a ELSE a

IsFinite(a) == a # nan /\ a # inf /\ a # 0 - inf

LMul(a, b) ==
    IF a = nan \/ b = nan THEN nan
    ELSE IF ~IsFinite(a) \/ ~IsFinite(b)
         THEN IF a = 0 \/ b = 0 THEN nan
              ELSE IF (a > 0) = (b > 0) THEN inf ELSE 0 - inf
         ELSE LET m == IF Abs(a) = 1000 THEN Abs(b)
                       ELSE IF Abs(b) = 1000 THEN Abs(a)
                       ELSE IF Abs(a) >= 1000000
                            THEN (Abs(a) \div 1000) * Abs(b)
                       ELSE IF Abs(b) >= 1000000
                            THEN Abs(a) * (Abs(b) \div 1000)
                       ELSE (Abs(a) * Abs(b)) \div 1000
              IN  IF (a >= 0) = (b >= 0) THEN m ELSE 0 - m

Lt(a, b) == a # nan /\ b # nan /\ a < b

Gt(a, b) == a # nan /\ b # nan /\ a > b

(***************************************************************************)
(* Non-negative floats: zero, exp(l/1000), +inf, nan.                      *)
(***************************************************************************)
Zero == [c |-> "zero", l |-> 0]

PInf == [c |-> "inf", l |-> 0]

NaN == [c |-> "nan", l |-> 0]

Pos(l) == IF l > 709782 THEN PInf
          ELSE IF l < 0 - 745133 THEN Zero
          ELSE [c |-> "pos", l |-> l]

FExp(t) == IF t = nan THEN NaN
           ELSE IF t = inf THEN PInf
           ELSE IF t = 0 - inf THEN Zero
           ELSE Pos(t)

FMul(a, b) ==
    IF a.c = "nan" \/ b.c = "nan" THEN NaN
    ELSE IF a.c = "zero" THEN (IF b.c = "inf" THEN NaN ELSE Zero)
    ELSE IF b.c = "zero" THEN (IF a.c = "inf" THEN NaN ELSE Zero)
    ELSE IF a.c = "inf" \/ b.c = "inf" THEN PInf
    ELSE Pos(a.l + b.l)

FRecip(a) == IF a.c = "nan" THEN NaN
             ELSE IF a.c = "zero" THEN PInf
             ELSE IF a.c = "inf" THEN Zero
             ELSE Pos(0 - a.l)

FDiv(a, b) ==
    IF a.c = "nan" \/ b.c = "nan" THEN NaN
    ELSE IF a.c = "zero" /\ b.c = "zero" THEN NaN
    ELSE IF a.c = "inf" /\ b.c = "inf" THEN NaN
    ELSE FMul(a, FRecip(b))

FGt(a, b) ==
    /\ a.c # "nan" /\ b.c # "nan"
    /\ \/ a.c = "inf" /\ b.c # "inf"
       \/ a.c = "pos" /\ b.c = "zero"
       \/ a.c = "pos" /\ b.c = "pos" /\ a.l > b.l

FGe(a, b) == a.c # "nan" /\ b.c # "nan" /\ (FGt(a, b) \/ a = b)

\* a signed float in [0, 2] seen as a non-negative float (its logarithm)
FromLin(u) == CASE u = 0 -> Zero
                [] u = 250 -> Pos(0 - 1386)
                [] u = 500 -> Pos(0 - 693)
                [] u = 750 -> Pos(0 - 288)
                [] u = 1000 -> Pos(0)
                [] u = 2000 -> Pos(693)

(***************************************************************************)
(* numpy boolean-mask indexing.                                            *)
(***************************************************************************)
\* the array with elements F(1), ..., F(n)
Arr(n, F(_)) ==
    LET RECURSIVE G(_)
        G(i) == IF i = 0 THEN <<>> ELSE Append(G(i - 1), F(i))
    IN  G(n)

Count(m) == Cardinality({i \in 1..Len(m) : m[i]})

Where(m) ==
    LET RECURSIVE F(_)
        F(i) == IF i > Len(m) THEN <<>>
                ELSE (IF m[i] THEN <<i>> ELSE <<>>) \o F(i + 1)
    IN  F(1)

Rank(m, i) == Cardinality({j \in 1..i : m[j]})

Not(m) == Arr(Len(m), LAMBDA i : ~m[i])

\* a[m]
Take(a, m) == Arr(Count(m), LAMBDA j : a[Where(m)[j]])

\* a[m] = v is legal when v has one element per selected position, or one
\* element at all (broadcast); anything else raises ValueError
CanAssign(m, v) == Len(v) = Count(m) \/ Len(v) = 1

\* a[m] = v
BoolAssign(a, m, v) ==
    Arr(Len(a), LAMBDA i :
        IF m[i] THEN (IF Len(v) = Count(m) THEN v[Rank(m, i)] ELSE v[1])
        ELSE a[i])

\* a[m] = c for a scalar c
BoolFill(a, m, c) == Arr(Len(a), LAMBDA i : IF m[i] THEN c ELSE a[i])

(***************************************************************************)
(* DimrothWatson: normalisation and density.                               *)
(***************************************************************************)
\* 4.0*np.sqrt(np.pi)*erf(np.sqrt(a))/(4.0*np.sqrt(a))
erfTerm(a) == CASE a = nan -> NaN
                [] a = 0 -> NaN
                [] a = 414 -> Pos(563)
                [] a = 1000 -> Pos(401)
                [] a = 1000000 -> Pos(0 - 2882)
                [] a = TanHalfPi -> Pos(0 - 18094)
                [] a = inf -> Zero

\* 4.0*np.sqrt(np.pi)*erfi(np.sqrt(a))/(4.0*np.sqrt(a)); erfi overflows to
\* inf for a above about 714
erfiTerm(a) == CASE a = nan -> NaN
                 [] a = 0 -> NaN
                 [] a = 414 -> Pos(839)
                 [] a = 1000 -> Pos(1073)
                 [] a = 1000000 -> PInf
                 [] a = TanHalfPi -> PInf
                 [] a = inf -> NaN

fabs(a) == IF a = nan THEN nan ELSE Abs(a)

\* NegativeK taken after k = np.fabs(k)
NegativeKAfterFabs(kv) == Lt(fabs(kv), 0) /\ fabs(kv) # 0

\* negative_k = (k < 0) & (k != 0) and non_zero_k = (k != 0), one element
NegativeK(kv) == Lt(kv, 0) /\ kv # 0

NonZeroK(kv) == kv # 0

\* one element of _norm: the masks are taken before k = np.fabs(k), norm
\* starts at zero, is set for k != 0 and then overwritten for k < 0
norm1(kv) ==
    LET a == fabs(kv)
        n1 == IF NonZeroK(kv) THEN erfTerm(a) ELSE Zero
        n2 == IF NegativeK(kv) THEN erfiTerm(a) ELSE n1
    IN  IF a = 0 THEN FromLin(500) ELSE FRecip(n2)

_norm(kArr) == Arr(Len(kArr), LAMBDA i : norm1(kArr[i]))

\* np.finfo(float).eps, 2^-52: below the resolution of a signed float here
epsilon == 0

\* 1.0/epsilon and 1.0/(2.0*epsilon) as non-negative floats
InvEps == Pos(36044)

HalfInvEps == Pos(35351)

\* nan_to_num left out
nan_to_num_missing(a) == a

\* np.nan_to_num: nan -> 0.0, inf -> the largest finite float
nan_to_num(a) == IF a.c = "nan" THEN Zero
                 ELSE IF a.c = "inf" THEN Pos(709782)
                 ELSE a

\* element i of an array broadcast against a longer one
Bc(a, i) == IF Len(a) = 1 THEN a[1] ELSE a[i]

\* p = np.nan_to_num(norm*np.exp(-1.0*k*x**2)), one element
RawDensity(xv, kv) ==
    nan_to_num(FMul(norm1(kv), FExp(LMul(LMul(0 - 1000, kv), LMul(xv, xv)))))

\* the edge cases of _pdf applied to one raw density
EdgeCases(praw, xv, kv) ==
    LET edge_mask == FGe(praw, InvEps) \/ praw = Zero
        pa == IF edge_mask THEN Zero ELSE praw
        bipolar == xv >= 1000 - epsilon \/ xv <= (0 - 1000) + epsilon
        pb == IF bipolar /\ edge_mask /\ Gt(kv, 1000) THEN HalfInvEps ELSE pa
        girdle == xv >= 0 - epsilon /\ xv <= 0 + epsilon
    IN  IF girdle /\ edge_mask /\ Lt(kv, 0 - 1000) THEN HalfInvEps ELSE pb

pdf1(xv, kv) == EdgeCases(RawDensity(xv, kv), xv, kv)

_pdf(xArr, kArr) ==
    Arr(IF Len(xArr) >= Len(kArr) THEN Len(xArr) ELSE Len(kArr),
        LAMBDA i : pdf1(Bc(xArr, i), Bc(kArr, i)))

\* rv_continuous.pdf, one element: _pdf where the arguments pass _argcheck
\* (k == k) and x is in the support [a, b] = [-1, 1]
pdf(xv, kv) ==
    IF kv = nan THEN NaN
    ELSE IF xv < 0 - 1000 \/ xv > 1000 THEN Zero
    ELSE pdf1(xv, kv)

(***************************************************************************)
(* DimrothWatson: the two proposal families of Best & Fisher (1986), one   *)
(* element each.                                                           *)
(***************************************************************************)
\* np.log(1 + t) for the t = eta^2 * x^2 of the candidates
Log1p(t) == CASE t = 0 -> 0
              [] t = 39 -> 39
              [] t = 446 -> 369
              [] t = 1000 -> 693

\* eta/np.arctan(eta)/2 with eta = sqrt(k)
HalfC(kv) == CASE kv = 1000 -> Pos(0 - 452)

\* np.tan(u*np.arctan(eta))/eta with eta = sqrt(k)
TanIsf(u, kv) == CASE kv = 1000 /\ u = 250 -> 199
                   [] kv = 1000 /\ u = 750 -> 668

g1_pdf(xv, kv) ==
    LET kn == 0 - kv
        eta2 == 0 - kn
    IN  FMul(HalfC(eta2), FRecip(Pos(Log1p(LMul(eta2, LMul(xv, xv))))))

g1_isf(u, kv) ==
    LET kn == 0 - kv
    IN  TanIsf(u, 0 - kn)

m1(kv) == FromLin(2000)

\* (np.exp(k)-1)/k for the negated shape k
Expm1OverK(kv) == CASE kv = 1000 -> Pos(541)

\* np.log(k*u/C + 1)/k for the negated shape k
LogIsf(u, kv) == CASE kv = 1000 /\ u = 250 -> 357
                   [] kv = 1000 /\ u = 750 -> 828

g2_pdf(xv, kv) ==
    LET kn == 0 - kv
        norm == FMul(FromLin(2000), Expm1OverK(kn))
    IN  FDiv(FExp(LMul(kn, Abs(xv))), norm)

g2_isf(u, kv) == LogIsf(u, 0 - kv)

m2(kv) ==
    LET kn == 0 - kv
        C == FRecip(Expm1OverK(kn))
        norm == FMul(FromLin(2000), Expm1OverK(kn))
    IN  FMul(C, norm)

(***************************************************************************)
(* The p -> k mapping.                                                     *)
(***************************************************************************)
\* np.tan at the arguments p*pi/2 the model uses; tan of the float nearest
\* to pi/2 is 1.633e16, finite
tan(a) == CASE a = 0 -> 0
            [] a = 392 -> 414
            [] a = 0 - 392 -> 0 - 414
            [] a = 785 -> 1000
            [] a = 0 - 785 -> 0 - 1000
            [] a = 1000 -> 1557
            [] a = 0 - 1000 -> 0 - 1557
            [] a = 1571 -> TanHalfPi
            [] a = 0 - 1571 -> 0 - TanHalfPi

\* one element: the two masks compare the already rescaled p with 1.0, -1.0
strength1(pv) ==
    LET ps == LMul(pv, 1571)
        k0 == tan(ps)
        k1 == IF ps = 1000 THEN inf ELSE k0
        k2 == IF ps = 0 - 1000 THEN 0 - inf ELSE k1
    IN  LMul(0 - 1000, k2)

alignment_strenth(pArr) == Arr(Len(pArr), LAMBDA i : strength1(pArr[i]))

(***************************************************************************)
(* The random generator.  seed is <<>> for None and <<s>> for the integer  *)
(* s.  Seeded, draw number pos of the stream is a fixed function of the    *)
(* seed; unseeded, the generator state is unknown and a draw is any value. *)
(***************************************************************************)
U == {250, 750}

\* the values an unseeded draw of u1 takes
UCand == {250}

Seeds == {1, 2}

MT(s, pos) == IF ((s + 2) * (pos + 1) * (pos + 5) + (pos \div 3)) % 7 < 4
              THEN 250 ELSE 750

\* Draws when the seed is never applied to the generator
DrawsAmbient(n, sd, pos, S) == [1..n -> S]

Draws(n, sd, pos, S) ==
    IF sd = <<>> THEN [1..n -> S]
    ELSE {Arr(n, LAMBDA i : MT(sd[1], pos + i - 1))}

Advance(sd, pos, n) == IF sd = <<>> THEN 0 ELSE pos + n

(***************************************************************************)
(* Inputs.                                                                 *)
(***************************************************************************)
KVals == {0 - 1000000, 0 - 1000, 0, 1000, 1000000}

PVals == {0 - 1000, 0 - 637, 0 - 500, 0, 500, 637, 1000}

SeqsUpTo(S, n) == UNION {[1..m -> S] : m \in 0..n}

(***************************************************************************)
(* axes_correlated_with_z: the vectors built from phi and cos(theta).      *)
(***************************************************************************)
\* the shortcut taken as the identity on the uniform draw
UniformCosUnscaled(u) == u

\* cos_t = uran*2.0 - 1.0
UniformCos(u) == u * 2 - 1000

\* np.sqrt of a number that is not negative, rounded down
Root(v) == IF v = nan THEN nan
           ELSE IF v = inf THEN inf
           ELSE LET RECURSIVE B(_, _)
                    B(lo, hi) ==
                        IF lo = hi THEN lo
                        ELSE LET mid == (lo + hi + 1) \div 2
                             IN  IF mid * mid <= v * 1000 THEN B(mid, hi)
                                 ELSE B(lo, mid - 1)
                IN  B(0, 4000)

\* np.sqrt on [0, 1]; nan below 0
Sqrt(v) == IF v = nan \/ v < 0 THEN nan ELSE Root(v)

\* np.cos and np.sin at the two azimuths u*2*pi the model draws
Cos(a) == CASE a = 1570 -> 1
            [] a = 4712 -> 0

Sin(a) == CASE a = 1570 -> 1000
            [] a = 4712 -> 0 - 1000

Vectors(phiArr, cos_t) ==
    Arr(Len(cos_t), LAMBDA i :
        LET sin_t == Sqrt(1000 - LMul(cos_t[i], cos_t[i]))
        IN  <<LMul(sin_t, Cos(phiArr[i])), LMul(sin_t, Sin(phiArr[i])),
              cos_t[i]>>)

\* the composition applied to given azimuths and cos(theta) values
CosVals == {0 - 1001, 0 - 1000, 0, 500, 1000, 1001}

PhiVals == {1570, 4712}

(***************************************************************************)
(* axes_correlated_with_input_vector: the halotools vector utilities it    *)
(* calls, on vectors of three signed floats, and the rotation of the       *)
(* z-correlated axes onto the input vectors.  numpy arithmetic raises      *)
(* nothing: 0/0 and inf/inf are nan.                                       *)
(***************************************************************************)
LAdd(a, b) ==
    IF a = nan \/ b = nan THEN nan
    ELSE IF ~IsFinite(a) /\ ~IsFinite(b) THEN (IF a = b THEN a ELSE nan)
    ELSE IF ~IsFinite(a) THEN a
    ELSE IF ~IsFinite(b) THEN b
    ELSE a + b

LDiv(a, b) ==
    IF a = nan \/ b = nan THEN nan
    ELSE IF ~IsFinite(a) /\ ~IsFinite(b) THEN nan
    ELSE IF a = 0 /\ b = 0 THEN nan
    ELSE IF ~IsFinite(a) \/ b = 0
         THEN (IF (a > 0) = (b >= 0) THEN inf ELSE 0 - inf)
    ELSE IF ~IsFinite(b) THEN 0
    ELSE LET m == (Abs(a) * 1000) \div Abs(b)
         IN  IF (a >= 0) = (b >= 0) THEN m ELSE 0 - m

elementwise_dot(a, b) ==
    LAdd(LAdd(LMul(a[1], b[1]), LMul(a[2], b[2])), LMul(a[3], b[3]))

elementwise_norm(v) == Root(elementwise_dot(v, v))

\* vectors/elementwise_norm(vectors), one vector; the division is made
\* under np.errstate(divide='ignore', invalid='ignore')
normalized_vectors(v) ==
    LET n == elementwise_norm(v)
    IN  <<LDiv(v[1], n), LDiv(v[2], n), LDiv(v[3], n)>>

\* np.cross
cross(a, b) ==
    <<LAdd(LMul(a[2], b[3]), LMul(0 - 1000, LMul(a[3], b[2]))),
      LAdd(LMul(a[3], b[1]), LMul(0 - 1000, LMul(a[1], b[3]))),
      LAdd(LMul(a[1], b[2]), LMul(0 - 1000, LMul(a[2], b[1])))>>

\* normalized_vectors(np.cross(x, y)): no test for parallel x and y
vectors_normal_to_planes(a, b) == normalized_vectors(cross(a, b))

\* the cosine of angles_between_list_of_vectors: a dot product just beyond
\* 1 or -1 is set to 1 or -1 before np.arccos
CosAngle(a, b) ==
    LET dot == elementwise_dot(normalized_vectors(a), normalized_vectors(b))
    IN  IF dot = nan THEN nan
        ELSE IF dot > 1000 /\ dot < 1001 THEN 1000
        ELSE IF dot < 0 - 1000 /\ dot > 0 - 1001 THEN 0 - 1000
        ELSE IF dot > 1000 \/ dot < 0 - 1000 THEN nan
        ELSE dot

\* the sine of an angle in [0, pi] with cosine c
SinAngle(c) == IF c = nan \/ LMul(c, c) > 1000 THEN nan
               ELSE Root(1000 - LMul(c, c))

\* entry (i, j) of rotation_matrices_from_angles: R1 + R2 + R3 with
\* R1 = cos(a)*I, R2 = d d^T (1 - cos(a)) and R3 the cross-product matrix
\* of sin(a)*d, for the normalised direction d
rotation_matrices_from_angles(cosa, sina, dir, i, j) ==
    LET d == normalized_vectors(dir)
        R1 == IF i = j THEN cosa ELSE 0
        R2 == LMul(LMul(d[i], d[j]), LAdd(1000, LMul(0 - 1000, cosa)))
        sd == <<LMul(d[1], sina), LMul(d[2], sina), LMul(d[3], sina)>>
        R3 == CASE i = j -> 0
                [] i = 1 /\ j = 2 -> LMul(0 - 1000, sd[3])
                [] i = 1 /\ j = 3 -> sd[2]
                [] i = 2 /\ j = 1 -> sd[3]
                [] i = 2 /\ j = 3 -> LMul(0 - 1000, sd[1])
                [] i = 3 /\ j = 1 -> LMul(0 - 1000, sd[2])
                [] i = 3 /\ j = 2 -> sd[1]
    IN  LAdd(LAdd(R1, R2), R3)

\* rotate_vector_collection for one matrix and one vector
rotate_vector_collection(cosa, sina, dir, v) ==
    Arr(3, LAMBDA i :
        LAdd(LAdd(LMul(rotation_matrices_from_angles(cosa, sina, dir, i, 1),
                       v[1]),
                  LMul(rotation_matrices_from_angles(cosa, sina, dir, i, 2),
                       v[2])),
             LMul(rotation_matrices_from_angles(cosa, sina, dir, i, 3), v[3])))

\* one row of the body of axes_correlated_with_input_vector after the call
\* of axes_correlated_with_z
RotateRow(ref, zv) ==
    LET z_axis == <<0, 0, 1000>>
        u == normalized_vectors(ref)
        cosa == CosAngle(z_axis, u)
    IN  rotate_vector_collection(cosa, SinAngle(cosa),
                                 vectors_normal_to_planes(z_axis, u), zv)

\* what the function called by the user returns, given the z-correlated
\* axes
Deliver(who, refs, zv) ==
    IF who = "input_vector"
    THEN Arr(Len(zv), LAMBDA i : RotateRow(refs[i], zv[i]))
    ELSE zv

(***************************************************************************)
(* State after construction: no call made yet.                             *)
(***************************************************************************)
Init ==
    /\ pc = "idle" /\ caller = "none" /\ callNo = 1 /\ first = <<>>
    /\ seed = <<>> /\ rngPos = 0
    /\ p = <<>> /\ phi = <<>>
    /\ k = <<>> /\ size = 0 /\ result = <<>> /\ uran0 = <<>>
    /\ mask = <<>> /\ kk = <<>>
    /\ n_sucess = 0 /\ n_remaining = 0 /\ n_iter = 0
    /\ uran1 = <<>> /\ uran2 = <<>> /\ uran3 = <<>> /\ y = <<>> /\ keep = <<>>
    /\ warned = FALSE /\ raised = "none" /\ out = <<>>
    /\ fnIn = <<>> /\ fnOut = <<>>
    /\ outer = "none" /\ input_vectors = <<>> /\ z_correlated_axes = <<>>
    /\ x_obs = <<>> /\ ptol = 0 /\ fit_max_iter = 0
    /\ p0 = 0 /\ p1 = 0 /\ num_iter = 0 /\ dp = 0 /\ continue_loop = FALSE
    /\ r_memb = <<>>
    /\ component = "none" /\ prim_gal_axis = "none" /\ param_dict = <<>>
    /\ kwargs = <<>>
    /\ A_v = <<>> /\ B_v = <<>> /\ C_v = <<>>
    /\ _Lbox = <<>> /\ table = <<>> /\ r_vec = <<>> /\ r = <<>>
    /\ warnings = <<>>
    /\ major_v = <<>> /\ inter_v = <<>> /\ minor_v = <<>>

(***************************************************************************)
(* DimrothWatson._rvs up to the loop: argument check, k = 0 draws, edge    *)
(* cases, loop bookkeeping.  sizeArg is self._size[0]; the generator is    *)
(* seeded by sd and stands at draw pos0.  fnIn keeps the arguments.        *)
(***************************************************************************)
\* DimMismatch without the branch that broadcasts a single shape value
DimMismatchNoBroadcast(kArg, sizeArg) ==
    sizeArg # 1 /\ Len(kArg) # sizeArg

\* the test that ends in raise ValueError(msg)
DimMismatch(kArg, sizeArg) ==
    sizeArg # 1 /\ Len(kArg) # sizeArg /\ Len(kArg) # 1

_rvs(kArg, sizeArg, sd, pos0) ==
    IF DimMismatch(kArg, sizeArg)
    THEN /\ pc' = "raised"
         /\ raised' = "ValueError: len(k)"
         /\ warned' = FALSE
         /\ out' = <<>>
         /\ rngPos' = pos0
         /\ fnIn' = [k |-> kArg, size |-> sizeArg]
         /\ UNCHANGED rvsVars
    ELSE LET k1 == IF sizeArg # 1 /\ Len(kArg) # sizeArg
                   THEN Arr(sizeArg, LAMBDA i : kArg[1])
                   ELSE kArg
             size1 == IF sizeArg # 1 THEN sizeArg ELSE Len(kArg)
             zero_k == Arr(size1, LAMBDA i : k1[i] = 0)
             x == Arr(size1, LAMBDA i : FExp(k1[i]))
             edge_mask == Arr(size1, LAMBDA i : x[i] = PInf \/ x[i] = Zero)
             posEdge == Arr(size1, LAMBDA i : edge_mask[i] /\ Gt(k1[i], 0))
             negEdge == Arr(size1, LAMBDA i : edge_mask[i] /\ Lt(k1[i], 0))
             n0 == Count(zero_k)
             n1 == Count(posEdge)
         IN  \E u0 \in Draws(n0, sd, pos0, U), c \in Draws(n1, sd, pos0 + n0, U) :
               LET ur0 == Arr(n0, LAMBDA j : u0[j] * 2 - 1000)
                   r1 == BoolAssign(Arr(size1, LAMBDA i : 0), zero_k, ur0)
                   r2 == BoolAssign(r1, posEdge,
                            Arr(n1, LAMBDA j :
                                IF c[j] < 500 THEN 1000 ELSE 0 - 1000))
                   r3 == BoolFill(r2, negEdge, 0)
                   ns == n0 + Count(edge_mask)
               IN  /\ k' = k1
                   /\ size' = size1
                   /\ uran0' = ur0
                   /\ result' = r3
                   /\ n_sucess' = ns
                   /\ n_remaining' = size1 - ns
                   /\ n_iter' = 0
                   /\ kk' = Take(k1, Arr(size1, LAMBDA i :
                                         ~zero_k[i] /\ ~edge_mask[i]))
                   /\ mask' = BoolFill(Arr(size1, LAMBDA i : FALSE),
                                       zero_k, TRUE)
                   /\ uran1' = <<>> /\ uran2' = <<>> /\ uran3' = <<>>
                   /\ y' = <<>> /\ keep' = <<>>
                   /\ rngPos' = Advance(sd, pos0, n0 + n1)
                   /\ fnIn' = [k |-> kArg, size |-> sizeArg]
                   /\ pc' = "loop"
                   /\ raised' = "none"
                   /\ warned' = FALSE
                   /\ out' = <<>>

\* d.rvs(k, size=sizeArg) called by a user of the distribution, on the
\* ambient generator
Call_rvs ==
    /\ pc = "idle"
    /\ \E sizeArg \in 1..MaxSize, kArg \in SeqsUpTo(KVals, MaxSize) :
          _rvs(kArg, sizeArg, <<>>, 0)
    /\ caller' = "rvs"
    /\ seed' = <<>>
    /\ UNCHANGED <<callNo, first, p, phi, fnOut, rotVars, extVars>>

(***************************************************************************)
(* One pass through the body of the rejection loop.                        *)
(***************************************************************************)
\* LoopCond with the cap tested one round late
LoopCondLate == n_sucess < size /\ n_iter <= max_iter

\* while (n_sucess < size) & (n_iter < max_iter)
LoopCond == n_sucess < size /\ n_iter < max_iter

\* Accept without the enveloping factor
AcceptNoEnvelope(f, g, m, u) == FGt(FDiv(f, g), FromLin(u))

\* keep = ((f_y/(g_y*m)) > uran2), one element
Accept(f, g, m, u) == FGt(FDiv(f, FMul(g, m)), FromLin(u))

\* the candidate of one pending position: drawn from the proposal of its
\* shape through the inverse survival function, then
\* y[uran3 < 0.5] = -1.0*y[uran3 < 0.5]
Candidate(u1v, u3v, kv) ==
    LET y1 == IF Gt(kv, 0) THEN g1_isf(u1v, kv) ELSE 0
        y2 == IF Lt(kv, 0) THEN g2_isf(u1v, kv) ELSE y1
    IN  IF u3v < 500 THEN 0 - y2 ELSE y2

\* g_y and m of one pending position
ProposalDensity(yv, kv) ==
    LET g1 == IF Gt(kv, 0) THEN g1_pdf(yv, kv) ELSE Zero
    IN  IF Lt(kv, 0) THEN g2_pdf(yv, kv) ELSE g1

EnvelopeFactor(kv) ==
    LET mm1 == IF Gt(kv, 0) THEN m1(kv) ELSE Zero
    IN  IF Lt(kv, 0) THEN m2(kv) ELSE mm1

RvsRound ==
    /\ pc = "loop"
    /\ LoopCond
    /\ \E u1 \in Draws(n_remaining, seed, rngPos, UCand),
          u2 \in Draws(n_remaining, seed, rngPos + n_remaining, U),
          u3 \in Draws(n_remaining, seed, rngPos + 2 * n_remaining, U) :
        \E yy \in {Arr(n_remaining,
                       LAMBDA j : Candidate(u1[j], u3[j], kk[j]))} :
         \E kp \in {Arr(n_remaining, LAMBDA j :
                       Accept(pdf(yy[j], kk[j]),
                              ProposalDensity(yy[j], kk[j]),
                              EnvelopeFactor(kk[j]), u2[j]))},
            nm \in {Not(mask)} :
             /\ uran1' = u1 /\ uran2' = u2 /\ uran3' = u3
             /\ y' = yy
             /\ keep' = kp
             /\ n_sucess' = n_sucess + Count(kp)
             /\ rngPos' = Advance(seed, rngPos, 3 * n_remaining)
             /\ IF CanAssign(nm, yy)
                THEN /\ result' = BoolAssign(result, nm, yy)
                     /\ mask' = BoolAssign(mask, nm, kp)
                     /\ kk' = Take(kk, Not(kp))
                     /\ n_iter' = n_iter + 1
                     /\ n_remaining' = Count(Not(kp))
                     /\ UNCHANGED <<pc, raised>>
                ELSE /\ pc' = "raised"
                     /\ raised' = "ValueError: assignment"
                     /\ UNCHANGED <<result, mask, kk, n_iter, n_remaining>>
    /\ UNCHANGED <<caller, callNo, first, seed, p, phi, k, size, uran0,
                   warned, out, fnIn, fnOut, rotVars, extVars>>

\* the code after the loop: `raise warn(msg)` issues the warning and then
\* raises what warn returned, None, which is a TypeError
RvsReturn ==
    /\ pc = "loop"
    /\ ~LoopCond
    /\ IF n_iter = max_iter
       THEN /\ warned' = TRUE
            /\ pc' = "raised"
            /\ raised' = "TypeError"
            /\ out' = out
            /\ UNCHANGED z_correlated_axes
       ELSE /\ pc' = "done"
            /\ IF caller = "axes"
               THEN \E zv \in {Vectors(phi, result)} :
                      /\ z_correlated_axes' = zv
                      /\ out' = Deliver(outer, input_vectors, zv)
               ELSE /\ out' = result
                    /\ UNCHANGED z_correlated_axes
            /\ UNCHANGED <<warned, raised>>
    /\ UNCHANGED <<caller, callNo, first, seed, rngPos, p, phi,
                   rvsVars, fnIn, fnOut, outer, input_vectors, extVars>>

(***************************************************************************)
(* axes_correlated_with_z(p, seed).                                        *)
(***************************************************************************)
axes_correlated_with_z(pArg, sd) ==
    LET npts == Len(pArg)
    IN  \E ph \in Draws(npts, sd, 0, U) :
          /\ p' = pArg
          /\ seed' = sd
          /\ phi' = Arr(npts, LAMBDA i : LMul(ph[i], 6283))
          /\ caller' = "axes"
          /\ IF \A i \in 1..npts : pArg[i] = 0
             THEN \E uran \in Draws(npts, sd, npts, U) :
                   \E zv \in {Vectors(phi',
                                 Arr(npts, LAMBDA i : UniformCos(uran[i])))} :
                    /\ z_correlated_axes' = zv
                    /\ out' = Deliver(outer', input_vectors', zv)
                    /\ pc' = "done"
                    /\ raised' = "none"
                    /\ warned' = FALSE
                    /\ rngPos' = Advance(sd, npts, npts)
                    /\ UNCHANGED <<rvsVars, fnIn>>
             ELSE /\ _rvs(alignment_strenth(pArg), 1, sd, npts)
                  /\ z_correlated_axes' = <<>>

Call_axes ==
    /\ pc = "idle"
    /\ \E pArg \in SeqsUpTo(PVals, MaxSize) \ {<<>>},
          sd \in {<<s>> : s \in Seeds} :
          /\ outer' = "none"
          /\ input_vectors' = <<>>
          /\ axes_correlated_with_z(pArg, sd)
    /\ UNCHANGED <<callNo, first, fnOut, extVars>>

\* a second call with the p and the integer seed of the first
Recall ==
    /\ pc \in {"done", "raised"}
    /\ caller = "axes"
    /\ seed # <<>>
    /\ callNo = 1
    /\ callNo' = 2
    /\ first' = [pc |-> pc, out |-> out, raised |-> raised, warned |-> warned]
    /\ outer = "none"
    /\ UNCHANGED <<outer, input_vectors>>
    /\ axes_correlated_with_z(p, seed)
    /\ UNCHANGED <<fnOut, extVars>>

\* d.rvs(k) with k = alignment_strenth(p) for the all-zero p of a finished
\* call, made as lines 1425-1427 would make it: under the same seed, after
\* the same npts draws of phi
Call_rvs_zero ==
    /\ pc = "done" /\ caller = "axes" /\ outer = "none"
    /\ callNo = 1 /\ seed # <<>>
    /\ \A i \in 1..Len(p) : p[i] = 0
    /\ callNo' = 2
    /\ first' = [pc |-> pc, out |-> out, raised |-> raised, warned |-> warned]
    /\ _rvs(alignment_strenth(p), 1, seed, Len(p))
    /\ caller' = "rvs_zero"
    /\ UNCHANGED <<seed, p, phi, fnOut, rotVars, extVars>>

\* the composition of lines 1429-1435 applied to given phi and cos_t
Call_vectors ==
    /\ pc = "idle"
    /\ \E n \in 1..MaxSize :
         \E phiArg \in [1..n -> PhiVals], cosArg \in [1..n -> CosVals] :
          /\ fnIn' = [phi |-> phiArg, cos_t |-> cosArg]
          /\ fnOut' = Vectors(phiArg, cosArg)
    /\ pc' = "done"
    /\ caller' = "vectors"
    /\ UNCHANGED <<callNo, first, seed, rngPos, p, phi, rvsVars,
                   warned, raised, out, rotVars, extVars>>

(***************************************************************************)
(* axes_correlated_with_input_vector(input_vectors, p, seed).              *)
(***************************************************************************)
RefVals == {<<0, 0, 1000>>, <<0, 0, 2000>>, <<0, 0, 0 - 1000>>, <<0, 0, 0>>,
            <<2000, 0, 0>>, <<inf, 0, 0>>}

PRot == {0 - 500, 0, 500}

Call_input_vector ==
    /\ pc = "idle"
    /\ \E n \in 1..MaxSize :
         \E refs \in [1..n -> RefVals], pArg \in [1..n -> PRot],
            sd \in {<<s>> : s \in Seeds} :
          /\ outer' = "input_vector"
          /\ input_vectors' = refs
          /\ axes_correlated_with_z(pArg, sd)
    /\ UNCHANGED <<callNo, first, fnOut, extVars>>

(***************************************************************************)
(* Calls of the pure functions.                                            *)
(***************************************************************************)
XVals == {0 - 1000, 0 - 500, 0, 500, 1000}

KAll == KVals \cup {inf, 0 - inf}

Call_alignment_strenth ==
    /\ pc = "idle"
    /\ \E pArg \in SeqsUpTo(PVals, MaxSize) \ {<<>>} :
          /\ fnIn' = pArg
          /\ fnOut' = alignment_strenth(pArg)
    /\ pc' = "done"
    /\ caller' = "alignment_strenth"
    /\ UNCHANGED <<callNo, first, seed, rngPos, p, phi, rvsVars,
                   warned, raised, out, rotVars, extVars>>

Call_norm ==
    /\ pc = "idle"
    /\ \E kArg \in SeqsUpTo(KAll, MaxSize) \ {<<>>} :
          /\ fnIn' = kArg
          /\ fnOut' = _norm(kArg)
    /\ pc' = "done"
    /\ caller' = "_norm"
    /\ UNCHANGED <<callNo, first, seed, rngPos, p, phi, rvsVars,
                   warned, raised, out, rotVars, extVars>>

Call_pdf ==
    /\ pc = "idle"
    /\ \E n \in 1..MaxSize :
         \E xArg \in [1..n -> XVals], kArg \in [1..n -> KAll] :
          /\ fnIn' = [x |-> xArg, k |-> kArg]
          /\ fnOut' = _pdf(xArg, kArg)
    /\ pc' = "done"
    /\ caller' = "_pdf"
    /\ UNCHANGED <<callNo, first, seed, rngPos, p, phi, rvsVars,
                   warned, raised, out, rotVars, extVars>>

(***************************************************************************)
(* The mixture model: membership weights and the fit.  A matrix is the     *)
(* sequence of its rows.                                                   *)
(***************************************************************************)
MaxFitIter == 3

\* np.log(1 + np.exp(-d)) for the differences d between the logarithms of
\* two densities of a row
Softplus(d) == CASE d = 0 -> 693
                 [] d = 250 -> 576
                 [] d = 414 -> 507
                 [] d = 750 -> 387
                 [] d = 1000 -> 313
                 [] d >= 10000 -> 0

\* the sum of two non-negative floats
FAdd(a, b) ==
    IF a.c = "nan" \/ b.c = "nan" THEN NaN
    ELSE IF a.c = "inf" \/ b.c = "inf" THEN PInf
    ELSE IF a.c = "zero" THEN b
    ELSE IF b.c = "zero" THEN a
    ELSE IF a.l >= b.l THEN Pos(a.l + Softplus(a.l - b.l))
    ELSE Pos(b.l + Softplus(b.l - a.l))

\* np.sum(p, axis=-1) for one row
RowSum(row) ==
    LET RECURSIVE S(_)
        S(i) == IF i = 0 THEN Zero ELSE FAdd(S(i - 1), row[i])
    IN  S(Len(row))

\* p[:,i] = d.pdf(x[:,i], k=k), then f[:,i] = p[:,i]/np.sum(p, axis=-1)
watson_mixture_membership(xm, pv) ==
    LET kv == strength1(pv)
    IN  Arr(Len(xm), LAMBDA n :
          LET dens == Arr(Len(xm[n]), LAMBDA i : pdf(xm[n][i], kv))
              tot == RowSum(dens)
          IN  Arr(Len(dens), LAMBDA i : FDiv(dens[i], tot)))

\* cos(theta) observations and strengths handed to the membership function
XMem == {0, 500, 1000}

PMem == {0 - 1000, 0, 500, 1000}

\* N x 2 matrices over a set of values
Matrices(S, n) == UNION {[1..m -> [1..2 -> S]] : m \in 1..n}

Call_membership ==
    /\ pc = "idle"
    /\ \E xm \in Matrices(XMem, MaxSize), pv \in PMem :
          /\ fnIn' = [x |-> xm, p |-> pv]
          /\ fnOut' = watson_mixture_membership(xm, pv)
    /\ pc' = "done"
    /\ caller' = "membership"
    /\ UNCHANGED <<callNo, first, seed, rngPos, p, phi, rvsVars,
                   warned, raised, out, rotVars, extVars>>

\* the values the inner minimiser may settle on, before its bounds
PMin == {0 - 1000, 0 - 500, 0 - 250, 0, 250, 500, 1000}

\* bounds wide enough for the whole domain of p
BoundsUnit == [lo |-> 0 - 1000, hi |-> 1000]

\* bounds=[(-0.99,0.99)]
Bounds == [lo |-> 0 - 990, hi |-> 990]

\* minimize(f, (p0), args=(x, r, ), bounds=...).x[0]: some point inside the
\* bounds, whatever the objective
minimize == {v \in PMin : Bounds.lo <= v /\ v <= Bounds.hi}

\* the cap tested one pass late
CapReachedLate(n, cap) == n > cap

\* num_iter>=max_iter
CapReached(n, cap) == n >= cap

\* (dp<ptol) | (num_iter>=max_iter)
StopTest(d, n) == Lt(d, ptol) \/ CapReached(n, fit_max_iter)

XFit == {0, 1000}

Call_fit ==
    /\ pc = "idle"
    /\ \E xm \in Matrices(XFit, MaxSize), cap \in 0..MaxFitIter :
          /\ x_obs' = xm
          /\ fit_max_iter' = cap
    /\ ptol' = 10
    /\ continue_loop' = TRUE
    /\ p0' = 0
    /\ num_iter' = 0
    /\ pc' = "fit"
    /\ caller' = "fit"
    /\ UNCHANGED <<callNo, first, seed, rngPos, p, phi, rvsVars,
                   warned, raised, out, fnIn, fnOut, rotVars,
                   p1, dp, r_memb, compVars>>

\* one pass through the body of the while loop
FitIter ==
    /\ pc = "fit"
    /\ continue_loop
    /\ r_memb' = watson_mixture_membership(x_obs, p0)
    /\ \E q \in minimize :
          /\ p1' = q
          /\ num_iter' = num_iter + 1
          /\ dp' = LDiv(q - p0, q)
          /\ continue_loop' = ~StopTest(dp', num_iter + 1)
          /\ p0' = q
    /\ UNCHANGED <<pc, caller, callNo, first, seed, rngPos, p, phi, rvsVars,
                   warned, raised, out, fnIn, fnOut, rotVars,
                   x_obs, ptol, fit_max_iter, compVars>>

\* return p1
FitReturn ==
    /\ pc = "fit"
    /\ ~continue_loop
    /\ pc' = "done"
    /\ out' = p1
    /\ UNCHANGED <<caller, callNo, first, seed, rngPos, p, phi, rvsVars,
                   warned, raised, fnIn, fnOut, rotVars, extVars>>

(***************************************************************************)
(* CentralAlignment: the constructor and assign_central_orientation.  The  *)
(* strengths are passed with seed=None, so every draw is ambient.          *)
(***************************************************************************)
possible_axis == {"major", "intermediate", "minor"}

\* prim_gal_axis values handed to a constructor
AxisArgs == possible_axis \cup {"principal"}

\* the letters taken from the wrong list entries
AxisLetterShifted(a) == CASE a = "major" -> "B"
                          [] a = "intermediate" -> "A"
                          [] a = "minor" -> "C"

\* self.prim_gal_axis for an entry of possible_axis
AxisLetter(a) == CASE a = "major" -> "A"
                   [] a = "intermediate" -> "B"
                   [] a = "minor" -> "C"

\* central_alignment_strength handed to the constructor: the default 1.0,
\* or 0.0
StrengthArgs == {1000, 0}

\* the values of a central_alignment_strength column
StrengthCol == {0, 1000}

\* halo alignment vectors
AxisVals == {<<2000, 0, 0>>, <<0, 0, 1000>>}

New_CentralAlignment ==
    /\ pc = "idle" /\ component = "none"
    /\ \E s \in StrengthArgs, a \in AxisArgs :
          /\ fnIn' = [central_alignment_strength |-> s, prim_gal_axis |-> a]
          /\ IF a \in possible_axis
             THEN /\ prim_gal_axis' = AxisLetter(a)
                  /\ param_dict' = [central_alignment_strength |-> s]
                  /\ component' = "CentralAlignment"
                  /\ UNCHANGED <<pc, raised>>
             ELSE /\ pc' = "raised"
                  /\ raised' = "ValueError: prim_gal_axis"
                  /\ UNCHANGED <<prim_gal_axis, param_dict, component>>
    /\ caller' = "__init__"
    /\ UNCHANGED <<callNo, first, seed, rngPos, p, phi, rvsVars,
                   warned, out, fnOut, rotVars, fitVars,
                   kwargs, A_v, B_v, C_v, major_v, inter_v, minor_v,
                   radVars>>

\* assign_central_orientation up to the call of
\* axes_correlated_with_input_vector(major_input_vectors, p=p): the halo
\* axes and the strengths come from the table or from the keywords, and a
\* table without the strength column falls back on param_dict
Call_assign_central_orientation ==
    /\ pc = "idle" /\ component = "CentralAlignment"
    /\ \E n \in 1..MaxSize :
         \E A \in [1..n -> AxisVals],
            mode \in {"kwargs", "table", "table_with_strength"} :
          \E col \in IF mode = "table_with_strength"
                     THEN [1..n -> StrengthCol] ELSE {<<>>} :
          /\ kwargs' = [mode |-> mode, A |-> A,
                        central_alignment_strength |-> col]
          /\ warnings' = IF mode = "table"
                         THEN <<[msg |-> "strength not detected in the table",
                                 n |-> 0]>>
                         ELSE <<>>
          /\ outer' = "input_vector"
          /\ input_vectors' = A
          /\ axes_correlated_with_z(
                 IF mode = "table_with_strength" THEN col
                 ELSE Arr(n, LAMBDA i :
                          LMul(1000, param_dict.central_alignment_strength)),
                 <<>>)
    /\ UNCHANGED <<callNo, first, fnOut, fitVars, component, prim_gal_axis,
                   param_dict, A_v, B_v, C_v, major_v, inter_v,
                   minor_v, _Lbox, table, r_vec, r>>

\* unit vectors along the coordinate axes
AxisDirs == {<<1000, 0, 0>>, <<0, 0, 1000>>, <<0, 0, 0 - 1000>>}

\* random_perpendicular_directions(v) for one vector: some unit vector at a
\* right angle to v, nan for a v that is not finite
random_perpendicular_directions(v) ==
    IF \E c \in 1..3 : ~IsFinite(v[c]) THEN {<<nan, nan, nan>>}
    ELSE {w \in AxisDirs : Abs(elementwise_dot(w, v)) <= 1}

\* the three returned axes for a letter: major_v, inter_v, minor_v
SelectAxes(letter, Av, Bv, Cv) ==
    CASE letter = "A" -> <<Av, Bv, Cv>>
      [] letter = "B" -> <<Bv, Av, Cv>>
      [] letter = "C" -> <<Bv, Cv, Av>>

\* self.gal_type
gal_type == IF component = "CentralAlignment" THEN "centrals"
            ELSE "satellites"

\* the gal_type columns of a table of n rows; <<>> for a table without one
GalTypeCols(n) == {<<>>} \cup [1..n -> {"centrals", "satellites"}]

\* the tables handed over hold the three galaxy_axisA columns and lack the
\* six galaxy_axisB and galaxy_axisC columns
HadAxes == {"A"}

\* what a row of three galaxy_axis columns held before the call, when the
\* table had the columns
PriorAxis == <<500, 500, 500>>

\* the same after the missing columns are created with 0.0
Before(axis) == IF axis \in HadAxes THEN PriorAxis ELSE <<0, 0, 0>>

\* every row written
TableMaskAll(gt, n) == Arr(n, LAMBDA i : TRUE)

\* the rows written: those of the component's gal_type, or all of them for
\* a table without the gal_type column
TableMask(gt, n) ==
    Arr(n, LAMBDA i : IF gt = <<>> THEN TRUE ELSE gt[i] = gal_type)

\* table[key] = 0.0 for a missing column, then table[key][mask] = v[mask],
\* for the three columns of one axis
WriteAxis(axis, m, v) ==
    Arr(Len(v), LAMBDA i : IF m[i] THEN v[i] ELSE Before(axis))

\* the table as the call leaves it: its gal_type column and the nine
\* galaxy_axis columns
WriteTable(gt, t) ==
    [gal_type |-> gt,
     galaxy_axisA |-> WriteAxis("A", TableMask(gt, Len(t[1])), t[1]),
     galaxy_axisB |-> WriteAxis("B", TableMask(gt, Len(t[2])), t[2]),
     galaxy_axisC |-> WriteAxis("C", TableMask(gt, Len(t[3])), t[3])]

\* assign_central_orientation after A_v is there: B_v, C_v, the choice of
\* the three axes, and the return of the triple or of the table.  The
\* gal_type column and the galaxy_axis columns of the table are read here
\* for the first time.
AssignCentralAxes ==
    /\ pc = "done" /\ component = "CentralAlignment"
    /\ outer = "input_vector"
    /\ \E Bv \in {b \in [1..Len(out) -> AxisDirs \cup {<<nan, nan, nan>>}] :
                    \A i \in 1..Len(out) :
                        b[i] \in random_perpendicular_directions(out[i])} :
        \E Cv \in {Arr(Len(out), LAMBDA i :
                       vectors_normal_to_planes(out[i], Bv[i]))} :
          /\ A_v' = out
          /\ B_v' = Bv
          /\ C_v' = Cv
          /\ IF prim_gal_axis \in {"A", "B", "C"}
             THEN \E t \in {SelectAxes(prim_gal_axis, out, Bv, Cv)} :
                    /\ major_v' = t[1]
                    /\ inter_v' = t[2]
                    /\ minor_v' = t[3]
                    /\ IF kwargs.mode = "kwargs"
                       THEN out' = t /\ UNCHANGED table
                       ELSE \E gt \in GalTypeCols(Len(out)) :
                              /\ table' = WriteTable(gt, t)
                              /\ out' = table'
                    /\ pc' = "returned"
                    /\ UNCHANGED raised
             ELSE /\ pc' = "raised"
                  /\ raised' = "ValueError: prim_gal_axis"
                  /\ UNCHANGED <<major_v, inter_v, minor_v, out, table>>
    /\ UNCHANGED <<caller, callNo, first, seed, rngPos, p, phi, rvsVars,
                   warned, fnIn, fnOut, rotVars, fitVars,
                   component, prim_gal_axis, param_dict, kwargs,
                   _Lbox, r_vec, r, warnings>>

(***************************************************************************)
(* RadialSatelliteAlignment: the constructor, get_radial_vector and        *)
(* assign_satellite_orientation.                                           *)
(***************************************************************************)
\* the Lbox keyword: three box lengths
BoxVals == {<<1000, 1000, 1000>>, <<2000, 1000, 1000>>}

\* self._Lbox = np.inf: one float, which has no elements
NoBox == <<inf>>

\* satellite_alignment_strength handed to the constructor
SatStrengthArgs == {1000}

New_RadialSatelliteAlignment ==
    /\ pc = "idle" /\ component = "none"
    /\ \E s \in SatStrengthArgs, a \in AxisArgs,
          box \in {<<>>, <<1000, 1000, 1000>>} :
          /\ fnIn' = [satellite_alignment_strength |-> s,
                      prim_gal_axis |-> a, Lbox |-> box]
          /\ IF a \in possible_axis
             THEN /\ prim_gal_axis' = AxisLetter(a)
                  /\ _Lbox' = IF box = <<>> THEN NoBox ELSE box
                  /\ param_dict' = [satellite_alignment_strength |-> s]
                  /\ component' = "RadialSatelliteAlignment"
                  /\ UNCHANGED <<pc, raised>>
             ELSE /\ pc' = "raised"
                  /\ raised' = "ValueError: prim_gal_axis"
                  /\ UNCHANGED <<prim_gal_axis, param_dict, component, _Lbox>>
    /\ caller' = "__init__"
    /\ UNCHANGED <<callNo, first, seed, rngPos, p, phi, rvsVars,
                   warned, out, fnOut, rotVars, fitVars,
                   kwargs, A_v, B_v, C_v, major_v, inter_v, minor_v,
                   table, r_vec, r, warnings>>

\* the wrap of one separation component without the second test
WrapDown(d, L) == IF Gt(d, LDiv(L, 2000)) THEN LAdd(d, 0 - L) ELSE d

\* dx[dx > L/2] -= L and then dx[dx < -L/2] += L, one element
Wrap(d, L) ==
    LET d1 == IF Gt(d, LDiv(L, 2000)) THEN LAdd(d, 0 - L) ELSE d
    IN  IF Lt(d1, LDiv(LMul(0 - 1000, L), 2000)) THEN LAdd(d1, L) ELSE d1

\* one row of r_vec
RadialVector(Lbox, x, halo) ==
    <<Wrap(LAdd(x[1], LMul(0 - 1000, halo[1])), Lbox[1]),
      Wrap(LAdd(x[2], LMul(0 - 1000, halo[2])), Lbox[2]),
      Wrap(LAdd(x[3], LMul(0 - 1000, halo[3])), Lbox[3])>>

\* r_vec of get_radial_vector; r is elementwise_norm of its rows
get_radial_vector(Lbox, xs, halos) ==
    Arr(Len(xs), LAMBDA i : RadialVector(Lbox, xs[i], halos[i]))

\* galaxy and halo positions handed to get_radial_vector
PosVals == {<<0, 0, 0>>, <<1000, 0, 0>>, <<100, 900, 500>>,
            <<600, 0, 1000>>, <<3000, 0, 0>>}

HaloVals == {<<0, 0, 0>>, <<600, 0, 1000>>}

\* get_radial_vector(Lbox=..., x=..., ...) called on the component; Lbox
\* None stands for self._Lbox, and the default self._Lbox = np.inf has no
\* elements
Call_get_radial_vector ==
    /\ pc = "idle" /\ component = "RadialSatelliteAlignment"
    /\ \E n \in 1..MaxSize :
         \E xs \in [1..n -> PosVals], halos \in [1..n -> HaloVals],
            box \in {<<>>} \cup BoxVals :
          /\ fnIn' = [Lbox |-> box, x |-> xs, halo |-> halos]
          /\ IF box = <<>> /\ _Lbox = NoBox
             THEN /\ pc' = "raised"
                  /\ raised' = "TypeError: 'float' object is not subscriptable"
                  /\ UNCHANGED <<out, fnOut, r_vec, r>>
             ELSE \E rv \in {get_radial_vector(
                                 IF box = <<>> THEN _Lbox ELSE box,
                                 xs, halos)} :
                    /\ r_vec' = rv
                    /\ r' = Arr(n, LAMBDA i : elementwise_norm(rv[i]))
                    /\ out' = <<r_vec', r'>>
                    /\ fnOut' = [x |-> xs, halo |-> halos]
                    /\ pc' = "done"
                    /\ UNCHANGED raised
    /\ caller' = "get_radial_vector"
    /\ UNCHANGED <<callNo, first, seed, rngPos, p, phi, rvsVars,
                   warned, rotVars, fitVars, component, prim_gal_axis,
                   param_dict, kwargs, A_v, B_v, C_v, major_v, inter_v,
                   minor_v, _Lbox, table, warnings>>

\* (r<=0.0) | (~np.isfinite(r))
ZeroOrNotFinite(d) == ~IsFinite(d) \/ d <= 0

\* the vectors np.random.random gives a replaced row
ReplaceVals == {<<250, 750, 250>>, <<750, 250, 250>>}

\* a satellite and its host: apart, at the same place, infinitely far
SatCases == {[x |-> <<600, 0, 1000>>, halo |-> <<0, 0, 0>>],
             [x |-> <<0, 0, 0>>, halo |-> <<0, 0, 0>>],
             [x |-> <<inf, 0, 0>>, halo |-> <<0, 0, 0>>]}

\* the values of a satellite_alignment_strength column
SatStrengthCol == {1000}

\* no row replaced
ReplaceNone(rv, rr, draw) == rv

\* major_input_vectors after lines 338-342: the rows with a degenerate r
\* hold the vectors drawn, the others are those of r_vec
Replace(rv, rr, draw) ==
    Arr(Len(rv), LAMBDA i :
        IF ZeroOrNotFinite(rr[i]) THEN draw[i] ELSE rv[i])

\* the warning of lines 343-345
ZeroWarning(rr) ==
    LET cnt == Cardinality({i \in 1..Len(rr) : ZeroOrNotFinite(rr[i])})
    IN  IF cnt > 0
        THEN <<[msg |-> "radial distance equal to zero", n |-> cnt]>>
        ELSE <<>>

\* the call ends with an exception before axes_correlated_with_z is called
RaiseInAssign(msg) ==
    /\ pc' = "raised"
    /\ raised' = msg
    /\ caller' = "assign_satellite_orientation"
    /\ UNCHANGED <<seed, rngPos, p, phi, rvsVars, warned, out, fnIn,
                   rotVars>>

\* assign_satellite_orientation up to the call of
\* axes_correlated_with_input_vector(major_input_vectors, p=p)
Call_assign_satellite_orientation ==
    /\ pc = "idle" /\ component = "RadialSatelliteAlignment"
    /\ \E n \in 1..MaxSize :
         \E rows \in [1..n -> SatCases],
            mode \in {"kwargs", "table", "table_with_strength"},
            box \in {<<>>, <<1000, 1000, 1000>>} :
          \E col \in IF mode = "table_with_strength"
                     THEN [1..n -> SatStrengthCol] ELSE {<<>>} :
            /\ kwargs' = [mode |-> mode, rows |-> rows, Lbox |-> box,
                          satellite_alignment_strength |-> col]
            /\ IF box # <<>>
               THEN /\ RaiseInAssign("TypeError: multiple values for Lbox")
                    /\ UNCHANGED <<r_vec, r, warnings>>
               ELSE IF _Lbox = NoBox
               THEN /\ RaiseInAssign(
                        "TypeError: 'float' object is not subscriptable")
                    /\ UNCHANGED <<r_vec, r, warnings>>
               ELSE
                 \E rv \in {get_radial_vector(_Lbox,
                                Arr(n, LAMBDA i : rows[i].x),
                                Arr(n, LAMBDA i : rows[i].halo))} :
                  \E rr \in {Arr(n, LAMBDA i : elementwise_norm(rv[i]))} :
                   \E draw \in {d \in [1..n -> ReplaceVals \cup {<<>>}] :
                                  \A i \in 1..n :
                                     (d[i] = <<>>) <=>
                                         ~ZeroOrNotFinite(rr[i])} :
                     /\ r_vec' = rv
                     /\ r' = rr
                     /\ IF mode = "kwargs"
                        THEN /\ warnings' = ZeroWarning(rr)
                             /\ RaiseInAssign("KeyError: 'x'")
                        ELSE /\ warnings' = ZeroWarning(rr) \o
                                  (IF mode = "table"
                                   THEN <<[msg |->
                                       "strength not detected in the table",
                                           n |-> 0]>>
                                   ELSE <<>>)
                             /\ outer' = "input_vector"
                             /\ input_vectors' = Replace(rv, rr, draw)
                             /\ axes_correlated_with_z(
                                   IF mode = "table_with_strength" THEN col
                                   ELSE Arr(n, LAMBDA i : LMul(1000,
                                      param_dict.satellite_alignment_strength)),
                                   <<>>)
    /\ UNCHANGED <<callNo, first, fnOut, fitVars, component, prim_gal_axis,
                   param_dict, A_v, B_v, C_v, major_v, inter_v,
                   minor_v, _Lbox, table>>

\* assign_satellite_orientation after A_v is there: the test for values
\* that are not finite, B_v, C_v, the choice of the three axes, and the
\* return of the triple or of the table.  The test of line 363 gives one
\* boolean for the whole batch; used as an index beside 0, 1 and 2 it
\* selects the rows 0, 1 and 2 of A_v.
AssignSatelliteAxes ==
    /\ pc = "done" /\ component = "RadialSatelliteAlignment"
    /\ outer = "input_vector"
    /\ LET n == Len(out)
           bad == \E i \in 1..n : \E c \in 1..3 : ~IsFinite(out[i][c])
       IN  IF bad /\ n < 3
           THEN /\ pc' = "raised"
                /\ raised' = "IndexError"
                /\ UNCHANGED <<A_v, B_v, C_v, major_v, inter_v, minor_v,
                               out, table, warnings>>
           ELSE
            \E v \in IF bad THEN [1..3 -> U] ELSE {<<>>} :
             \E Av \in {IF bad
                        THEN Arr(n, LAMBDA i :
                                 IF i <= 3 THEN <<v[i], v[i], v[i]>>
                                 ELSE out[i])
                        ELSE out} :
              \E Bv \in {b \in [1..n -> AxisDirs \cup {<<nan, nan, nan>>}] :
                           \A i \in 1..n :
                             b[i] \in random_perpendicular_directions(Av[i])} :
               \E Cv \in {Arr(n, LAMBDA i :
                              vectors_normal_to_planes(Av[i], Bv[i]))} :
                \E t \in {SelectAxes(prim_gal_axis, Av, Bv, Cv)} :
                  /\ A_v' = Av
                  /\ B_v' = Bv
                  /\ C_v' = Cv
                  /\ major_v' = t[1]
                  /\ inter_v' = t[2]
                  /\ minor_v' = t[3]
                  /\ warnings' = warnings \o
                        (IF bad THEN <<[msg |-> "axes not finite", n |-> 1]>>
                         ELSE <<>>)
                  /\ IF kwargs.mode = "kwargs"
                     THEN out' = t /\ UNCHANGED table
                     ELSE \E gt \in GalTypeCols(n) :
                            /\ table' = WriteTable(gt, t)
                            /\ out' = table'
                  /\ pc' = "returned"
                  /\ UNCHANGED raised
    /\ UNCHANGED <<caller, callNo, first, seed, rngPos, p, phi, rvsVars,
                   warned, fnIn, fnOut, rotVars, fitVars,
                   component, prim_gal_axis, param_dict, kwargs,
                   _Lbox, r_vec, r>>

(***************************************************************************)
(* HaloMassCentralAlignmentStrength and RadialSatelliteAlignmentStrength:  *)
(* the two strength formulas and their clamp, on arrays.                   *)
(***************************************************************************)
\* the upper test alone
ClampUpper(v) == IF Gt(v, 990) THEN 990 ELSE v

\* result[result < -0.99] = -0.99; result[result > 0.99] = 0.99, one element
Clamp(v) == LET low == IF Lt(v, 0 - 990) THEN 0 - 990 ELSE v
            IN  IF Gt(low, 990) THEN 990 ELSE low

\* np.log10 at the masses the model draws
log10(m) == CASE m = nan -> nan
              [] m = inf -> inf
              [] m < 0 -> nan
              [] m = 0 -> 0 - inf
              [] m = 1000 -> 0
              [] m = 10000 -> 1000
              [] m = 100000 -> 2000

\* scaled halo masses
MassVals == {0 - 1000, 0, 1000, 10000, 100000, inf, nan}

\* central_alignment_a (default 0.05) and central_alignment_gamma (default
\* 0.25)
MassA == {50, 1000, 0 - 1000}

MassGamma == {250, 0}

\* a*np.log10(m)+gamma, one element
MassFormula(a, gamma, m) == LAdd(LMul(a, log10(m)), gamma)

\* x**gamma for the exponents the model draws
Power(x, g) == CASE g = 0 -> 1000
                 [] g = 1000 -> x
                 [] g = 2000 -> LMul(x, x)

\* scaled radial positions
RadiusVals == {0, 500, 1000, 2000, inf, nan}

\* satellite_alignment_a and satellite_alignment_gamma (defaults 1.0)
RadialA == {1000, 2000, 0 - 2000}

RadialGamma == {1000, 0, 2000}

\* a*(1.0-1.0/(1.0+(1.0/r)**gamma)), one element
RadialFormula(a, gamma, rad) ==
    LMul(a, LAdd(1000, LMul(0 - 1000,
            LDiv(1000, LAdd(1000, Power(LDiv(1000, rad), gamma))))))

\* alignment_strength_mass_dependence(m) of a component built with a and
\* gamma: the formula makes a new array, which is clamped in place and
\* returned
Call_alignment_strength_mass_dependence ==
    /\ pc = "idle"
    /\ \E a \in MassA, gamma \in MassGamma,
          m \in SeqsUpTo(MassVals, MaxSize) \ {<<>>} :
        \E raw \in {Arr(Len(m), LAMBDA i : MassFormula(a, gamma, m[i]))} :
          /\ fnIn' = [a |-> a, gamma |-> gamma, x |-> m]
          /\ fnOut' = [formula |-> raw, x |-> m]
          /\ out' = Arr(Len(m), LAMBDA i : Clamp(raw[i]))
    /\ pc' = "done"
    /\ caller' = "alignment_strength_mass_dependence"
    /\ UNCHANGED <<callNo, first, seed, rngPos, p, phi, rvsVars,
                   warned, raised, rotVars, extVars>>

\* alignment_strength_radial_dependence(r)
Call_alignment_strength_radial_dependence ==
    /\ pc = "idle"
    /\ \E a \in RadialA, gamma \in RadialGamma,
          rad \in SeqsUpTo(RadiusVals, MaxSize) \ {<<>>} :
        \E raw \in {Arr(Len(rad), LAMBDA i :
                        RadialFormula(a, gamma, rad[i]))} :
          /\ fnIn' = [a |-> a, gamma |-> gamma, x |-> rad]
          /\ fnOut' = [formula |-> raw, x |-> rad]
          /\ out' = Arr(Len(rad), LAMBDA i : Clamp(raw[i]))
    /\ pc' = "done"
    /\ caller' = "alignment_strength_radial_dependence"
    /\ UNCHANGED <<callNo, first, seed, rngPos, p, phi, rvsVars,
                   warned, raised, rotVars, extVars>>

Next ==
    \/ Call_rvs
    \/ RvsRound
    \/ RvsReturn
    \/ Call_axes
    \/ Recall
    \/ Call_alignment_strenth
    \/ Call_norm
    \/ Call_pdf

Spec == Init /\ [][Next]_vars

\* axes_correlated_with_z beside the calls it is made of
NextAxes ==
    \/ Call_axes
    \/ RvsRound
    \/ RvsReturn
    \/ Call_rvs_zero
    \/ Call_vectors

SpecAxes == Init /\ [][NextAxes]_vars

\* the calls of axes_correlated_with_input_vector
NextVec ==
    \/ Call_input_vector
    \/ RvsRound
    \/ RvsReturn

SpecVec == Init /\ [][NextVec]_vars

\* the calls of the mixture model
NextFit ==
    \/ Call_membership
    \/ Call_fit
    \/ FitIter
    \/ FitReturn

SpecFit == Init /\ [][NextFit]_vars

\* the alignment components
NextComp ==
    \/ New_CentralAlignment
    \/ Call_assign_central_orientation
    \/ RvsReturn
    \/ AssignCentralAxes

SpecComp == Init /\ [][NextComp]_vars

\* the satellite component
NextRadial ==
    \/ New_RadialSatelliteAlignment
    \/ Call_get_radial_vector
    \/ Call_assign_satellite_orientation
    \/ RvsReturn
    \/ AssignSatelliteAxes

SpecRadial == Init /\ [][NextRadial]_vars

\* the strength models
NextStrength ==
    \/ Call_alignment_strength_mass_dependence
    \/ Call_alignment_strength_radial_dependence

SpecStrength == Init /\ [][NextStrength]_vars

(***************************************************************************)
(* Properties of DimrothWatson._rvs.                                       *)
(***************************************************************************)
\* a call of rvs made directly by a user has passed the argument check
RvsCalled == caller = "rvs" /\ pc \in {"loop", "done", "raised"}

RvsEnded == caller = "rvs" /\ pc \in {"done", "raised"}

\* the sample count in force after the argument check
EffectiveSize == IF fnIn.size # 1 THEN fnIn.size ELSE Len(fnIn.k)

\* C1 as stated: for every size, size = 1 included, a shape array whose
\* length is neither 1 nor size makes the call fail with the dimension
\* error and return nothing, and any other length makes the call return
\* exactly size samples.
C1_AsStated ==
    RvsCalled =>
        IF Len(fnIn.k) # 1 /\ Len(fnIn.k) # fnIn.size
        THEN pc = "raised" /\ raised = "ValueError: len(k)" /\ out = <<>>
        ELSE pc = "done" => Len(out) = fnIn.size

\* C1 amended: the length check applies only when size # 1.  Then a length
\* that is neither 1 nor size raises the dimension error and nothing is
\* returned, and no other length raises it.  With size = 1 no length is
\* rejected and the sample count becomes len(k).  Whenever the check
\* passes the result array has exactly that many entries, and a call that
\* returns, returns that array.
C1_DimensionCheck ==
    RvsCalled =>
        IF fnIn.size # 1 /\ Len(fnIn.k) # 1 /\ Len(fnIn.k) # fnIn.size
        THEN pc = "raised" /\ raised = "ValueError: len(k)" /\ out = <<>>
        ELSE /\ raised # "ValueError: len(k)"
             /\ size = EffectiveSize
             /\ Len(result) = EffectiveSize
             /\ pc = "done" => (out = result /\ Len(out) = EffectiveSize)

\* C1 witness: a call with size = 1 and two shape values has returned two
\* samples.
C1_Witness ==
    /\ RvsCalled /\ pc = "done"
    /\ fnIn.size = 1 /\ Len(fnIn.k) = 2 /\ Len(out) = 2

\* C2 as stated: when the loop stops at its cap of 100 rounds with a sample
\* still unresolved, the call issues the warning and returns the whole
\* result array.
C2_AsStated ==
    (RvsEnded /\ n_iter = max_iter /\ Len(kk) > 0) =>
        (warned /\ pc = "done" /\ out = result)

\* C3: the loop body runs at most 100 times; every step taken inside the
\* loop either is one more pass (n_iter grows by one) or ends the loop, so
\* the call terminates; and no pass is made once no position is pending.
C3_BoundedLoop ==
    /\ [](n_iter <= max_iter)
    /\ [][pc = "loop" =>
            \/ pc' = "loop" /\ n_iter' = n_iter + 1 /\ Len(kk) > 0
            \/ pc' # "loop" /\ n_iter' = n_iter /\ pc' \in {"done", "raised"}
         ]_vars

\* C3 witness: a call has ended after all 100 passes.
C3_Witness == RvsEnded /\ n_iter = max_iter

\* C4 as stated: a call in which every position has been accepted when the
\* loop ends, also in round 100, returns without the exhaustion warning.
C4_AsStated ==
    (RvsEnded /\ raised # "ValueError: len(k)"
        /\ raised # "ValueError: assignment" /\ Len(kk) = 0) =>
            (~warned /\ pc = "done")

\* the shape value at position i is one of the cases settled before the loop
IsZeroK(i) == k[i] = 0

IsEdgeK(i) == FExp(k[i]) = PInf \/ FExp(k[i]) = Zero

\* C5 as stated: from the end of the pre-loop code on, a position with
\* k = 0 holds its uniform draw, a position whose exp(k) overflows holds
\* +1 or -1 (k > 0) or 0 (k < 0), and the array returned holds these.
C5_AsStated ==
    (RvsCalled /\ raised # "ValueError: len(k)") =>
        /\ \A i \in 1..size :
              /\ IsZeroK(i) =>
                    result[i] = uran0[Rank(Arr(size, LAMBDA j : k[j] = 0), i)]
              /\ (IsEdgeK(i) /\ k[i] > 0) => result[i] \in {1000, 0 - 1000}
              /\ (IsEdgeK(i) /\ k[i] < 0) => result[i] = 0
        /\ pc = "done" => out = result

\* the value the claim compares u2 against: pdf(y,k)/(M*g(y,k))
AcceptanceRatio(yv, kv) ==
    FDiv(pdf(yv, kv),
         IF kv > 0 THEN FMul(m1(kv), g1_pdf(yv, kv))
         ELSE FMul(m2(kv), g2_pdf(yv, kv)))

\* C6: a pass draws one candidate per pending position and none for the
\* others; candidate j is kept exactly when u2 < pdf(y,k)/(M*g(y,k)); and a
\* position that is marked done keeps its mark and its value in every
\* later step of the call.
C6_AcceptAndFrame ==
    [][(pc = "loop" /\ n_iter' = n_iter + 1) =>
          /\ Len(y') = Len(kk) /\ Len(keep') = Len(kk) /\ Len(uran2') = Len(kk)
          /\ \A j \in 1..Len(kk) :
                keep'[j] <=> FGt(AcceptanceRatio(y'[j], kk[j]),
                                 FromLin(uran2'[j]))
          /\ Len(kk') = Len(kk) - Count(keep')
          /\ \A i \in 1..size :
                mask[i] => (mask'[i] /\ result'[i] = result[i])
      ]_vars

\* C6 witness: in a third or later pass, one position was accepted in an
\* earlier pass and another is still pending.
C6_Witness ==
    /\ caller = "rvs" /\ pc = "loop" /\ n_iter >= 2
    /\ \E i, j \in 1..size :
          /\ mask[i] /\ k[i] # 0 /\ ~mask[j]
          /\ Len(keep) = 1 /\ ~keep[1]

(***************************************************************************)
(* Properties of the seeded draws.                                         *)
(***************************************************************************)
\* draw number pos of the stream of the current seed, as a uniform on [0,1)
Stream(pos) == MT(seed[1], pos)

\* C7: under an integer seed the draws are consumed in a fixed order: the
\* phi values are the first npts draws of the stream and the cos(theta)
\* draws follow them; in every pass of the rejection loop the n pending
\* values of u1 are the next n draws, those of u2 the n after them and those
\* of u3 the n after those.  A second call with the same seed and p ends as
\* the first did, with the same vectors.
C7_SeededOrder ==
    /\ []((caller = "axes" /\ pc # "idle") =>
            /\ \A i \in 1..Len(p) : phi[i] = LMul(Stream(i - 1), 6283)
            /\ (pc = "done" /\ \A i \in 1..Len(p) : p[i] = 0) =>
                  \A i \in 1..Len(p) :
                      out[i][3] = Stream(Len(p) + i - 1) * 2 - 1000
            /\ (\E i \in 1..Len(p) : p[i] # 0) =>
                  \A j \in 1..Len(uran0) :
                      uran0[j] = Stream(Len(p) + j - 1) * 2 - 1000)
    /\ [][(caller = "axes" /\ pc = "loop" /\ n_iter' = n_iter + 1) =>
            \A j \in 1..n_remaining :
                /\ uran1'[j] = Stream(rngPos + j - 1)
                /\ uran2'[j] = Stream(rngPos + n_remaining + j - 1)
                /\ uran3'[j] = Stream(rngPos + 2 * n_remaining + j - 1)
         ]_vars
    /\ []((caller = "axes" /\ callNo = 2 /\ pc \in {"done", "raised"}) =>
            first = [pc |-> pc, out |-> out, raised |-> raised,
                     warned |-> warned])

\* C7 witness: the second call of a pair has returned its vectors after at
\* least two passes of the rejection loop.
C7_Witness ==
    /\ caller = "axes" /\ callNo = 2 /\ pc = "done" /\ n_iter >= 2
    /\ Len(out) = Len(p) /\ out = first.out

(***************************************************************************)
(* Properties of the pure functions.                                       *)
(***************************************************************************)
\* C8 as stated: alignment_strenth returns a signed infinity exactly at
\* p = 1 and p = -1, and for -1 < p < 1 the finite value -tan(p*pi/2),
\* which is 0 exactly when p = 0.
C8_AsStated ==
    (caller = "alignment_strenth" /\ pc = "done") =>
        \A i \in 1..Len(fnIn) :
            IF Abs(fnIn[i]) = 1000
            THEN fnOut[i] \in {inf, 0 - inf}
            ELSE /\ IsFinite(fnOut[i])
                 /\ fnOut[i] = LMul(0 - 1000, tan(LMul(fnIn[i], 1571)))
                 /\ (fnOut[i] = 0) <=> (fnIn[i] = 0)

\* C9: _norm raises nothing; a position with k = 0 yields 0.5, a position
\* with k > 0 the reciprocal of the erf term at |k| and a position with
\* k < 0 the reciprocal of the erfi term at |k|.
C9_NormBranches ==
    (caller = "_norm" /\ pc = "done") =>
        /\ raised = "none"
        /\ Len(fnOut) = Len(fnIn)
        /\ \A i \in 1..Len(fnIn) :
              /\ fnIn[i] = 0 => fnOut[i] = FromLin(500)
              /\ fnIn[i] > 0 => fnOut[i] = FRecip(erfTerm(Abs(fnIn[i])))
              /\ fnIn[i] < 0 => fnOut[i] = FRecip(erfiTerm(Abs(fnIn[i])))

\* C9 witness: _norm was applied to an array mixing k = 0 with a negative k.
C9_Witness ==
    /\ caller = "_norm" /\ pc = "done"
    /\ \E i, j \in 1..Len(fnIn) :
          /\ fnIn[i] = 0 /\ fnOut[i] = FromLin(500)
          /\ fnIn[j] < 0 /\ fnOut[j] # fnOut[i]

\* norm*np.exp(-1.0*k*x**2) as computed, before any repair
ComputedDensity(xv, kv) ==
    FMul(norm1(kv), FExp(LMul(LMul(0 - 1000, kv), LMul(xv, xv))))

\* C10: where the computed density is inf, 0 or nan, _pdf returns
\* 1/(2*eps) at x = +1 or -1 for k > 1, 1/(2*eps) at x = 0 for k < -1, and 0
\* anywhere else; and no value returned is nan or infinite.
C10_PdfLimits ==
    (caller = "_pdf" /\ pc = "done") =>
        \A i \in 1..Len(fnOut) :
            /\ fnOut[i].c \in {"zero", "pos"}
            /\ ComputedDensity(fnIn.x[i], fnIn.k[i]).c
                     \in {"inf", "zero", "nan"} =>
                  fnOut[i] =
                     IF fnIn.k[i] > 1000 /\ Abs(fnIn.x[i]) = 1000
                     THEN HalfInvEps
                     ELSE IF fnIn.k[i] < 0 - 1000 /\ fnIn.x[i] = 0
                     THEN HalfInvEps
                     ELSE Zero

\* C10 witness: _pdf met a nan density (k = -inf) at x = 0 and returned the
\* girdle limit, and met an underflow (large k > 0) at x = 1.
C10_Witness ==
    /\ caller = "_pdf" /\ pc = "done"
    /\ \E i, j \in 1..Len(fnOut) :
          /\ fnIn.k[i] = 0 - inf /\ fnIn.x[i] = 0 /\ fnOut[i] = HalfInvEps
          /\ fnIn.k[j] = 1000000 /\ fnIn.x[j] = 1000 /\ fnOut[j] = HalfInvEps

(***************************************************************************)
(* Properties of axes_correlated_with_z and of                             *)
(* axes_correlated_with_input_vector.                                      *)
(***************************************************************************)
\* C11: for an all-zero p the shortcut and d.rvs(k) with k = 0 everywhere
\* agree: started after the npts draws of phi under the same seed, rvs
\* leaves the generator where the shortcut left it, holds the cos(theta)
\* values the shortcut produced, has nothing pending (the loop condition is
\* false, no pass is made), and returns those values without a warning.
C11_ShortcutIsRvsZero ==
    /\ [][(caller = "axes" /\ caller' = "rvs_zero") =>
            /\ rngPos' = rngPos
            /\ pc' = "loop" /\ ~(n_sucess' < size') /\ Len(kk') = 0
            /\ Len(result') = Len(p)
            /\ \A i \in 1..Len(p) : result'[i] = out[i][3]
         ]_vars
    /\ [](caller = "rvs_zero" =>
            /\ n_iter = 0 /\ ~warned /\ raised = "none"
            /\ pc \in {"loop", "done"}
            /\ pc = "done" =>
                  /\ Len(out) = Len(first.out)
                  /\ \A i \in 1..Len(out) : out[i] = first.out[i][3])

\* C11 witness: rvs with k = 0 everywhere has returned two different
\* cos(theta) values, those of the shortcut.
C11_Witness ==
    /\ caller = "rvs_zero" /\ pc = "done"
    /\ Len(out) >= 2 /\ out[1] # out[2]
    /\ out[1] = first.out[1][3] /\ out[2] = first.out[2][3]

Degenerate(v) ==
    elementwise_norm(v) = 0 \/ \E c \in 1..3 : ~IsFinite(v[c])

\* C13 as stated: a call of axes_correlated_with_input_vector whose batch
\* holds a reference vector of zero length or with a non-finite component
\* ends with an input error and returns no vectors.
C13_AsStated ==
    (outer = "input_vector" /\ pc \in {"done", "raised"}
        /\ \E i \in 1..Len(input_vectors) : Degenerate(input_vectors[i])) =>
            (pc = "raised" /\ out = <<>>)

\* C14 as stated: a row whose reference vector is exactly the pole (0,0,1)
\* comes out as axes_correlated_with_z produced it, and a row whose
\* reference is exactly the opposite pole comes out turned by 180 degrees
\* about a perpendicular axis: finite, with the z component negated.
C14_AsStated ==
    (outer = "input_vector" /\ pc = "done") =>
        \A i \in 1..Len(input_vectors) :
            /\ input_vectors[i] = <<0, 0, 1000>> =>
                  out[i] = z_correlated_axes[i]
            /\ input_vectors[i] = <<0, 0, 0 - 1000>> =>
                  /\ \A c \in 1..3 : IsFinite(out[i][c])
                  /\ out[i][3] = 0 - z_correlated_axes[i][3]

(***************************************************************************)
(* Properties of the mixture model.                                        *)
(***************************************************************************)
\* C15 as stated: every row of the matrix returned by
\* watson_mixture_membership has entries that are numbers, not negative,
\* and that sum to 1, also when every density of the row is 0.
C15_AsStated ==
    (caller = "membership" /\ pc = "done") =>
        \A n \in 1..Len(fnOut) :
            /\ \A i \in 1..Len(fnOut[n]) : fnOut[n][i].c \in {"zero", "pos"}
            /\ RowSum(fnOut[n]) = Pos(0)

\* the relative change |p1 - p0| / |p1| is below the tolerance
Converged(q0, q1) == q1 # 0 /\ Abs(q1 - q0) * 1000 < ptol * Abs(q1)

\* C16 as stated: a pass of the outer loop is the last one exactly when the
\* magnitude of the relative change of p in that pass is below the
\* tolerance or the pass is number max_iter; a new iterate 0 never counts
\* as converged.
C16_AsStated ==
    [][(pc = "fit" /\ num_iter' = num_iter + 1) =>
          (~continue_loop' <=>
              (Converged(p0, p1') \/ num_iter' >= fit_max_iter))
      ]_vars

\* C17 as stated: for every max_iter >= 0 the number of passes made never
\* exceeds max_iter, and the value returned is the last iterate.
C17_AsStated ==
    caller = "fit" =>
        /\ num_iter <= fit_max_iter
        /\ pc = "done" => out = p1

\* C17 amended: the number of passes never exceeds max_iter when
\* max_iter >= 1, and is exactly one when max_iter = 0; every step of the
\* fit is one more pass or the return; the value returned is the iterate of
\* the last pass, also when the tolerance was never met.
C17_IterationCap ==
    /\ [](caller = "fit" =>
            /\ num_iter <= (IF fit_max_iter >= 1 THEN fit_max_iter ELSE 1)
            /\ num_iter >= 1 => p0 = p1
            /\ pc = "done" => (num_iter >= 1 /\ out = p1)
            /\ (pc = "done" /\ fit_max_iter = 0) => num_iter = 1)
    /\ [][pc = "fit" =>
            \/ /\ continue_loop /\ pc' = "fit" /\ num_iter' = num_iter + 1
               /\ (num_iter' >= fit_max_iter => ~continue_loop')
            \/ /\ ~continue_loop /\ pc' = "done" /\ num_iter' = num_iter
               /\ out' = p1
         ]_vars

\* C17 witness: a fit has returned after max_iter >= 2 passes, the last of
\* which did not meet the tolerance.
C17_Witness ==
    /\ caller = "fit" /\ pc = "done"
    /\ fit_max_iter >= 2 /\ num_iter = fit_max_iter
    /\ ~Lt(dp, ptol) /\ out = p1

\* C18: the first pass starts from p = 0, where every weight of two
\* components is 1/2; in every pass the weights handed to the minimiser are
\* those of the iterate of the pass before; the new iterate lies in
\* [-0.99, 0.99], and so does the value returned.
C18_FitIterates ==
    /\ [][(pc = "fit" /\ num_iter' = num_iter + 1) =>
            /\ num_iter = 0 =>
                  /\ p0 = 0
                  /\ \A n \in 1..Len(r_memb') : \A i \in 1..2 :
                        r_memb'[n][i] = FRecip(FromLin(2000))
            /\ r_memb' = watson_mixture_membership(x_obs, p0)
            /\ Len(r_memb') = Len(x_obs)
            /\ p1' >= 0 - 990 /\ p1' <= 990
            /\ p0' = p1'
            /\ UNCHANGED x_obs
         ]_vars
    /\ []((caller = "fit" /\ pc = "done") =>
            (out >= 0 - 990 /\ out <= 990))

\* C18 witness: a fit has returned a non-zero value after at least two
\* passes, the last with weights that are not all 1/2.
C18_Witness ==
    /\ caller = "fit" /\ pc = "done" /\ num_iter >= 2 /\ out = 500
    /\ \E n \in 1..Len(r_memb) : r_memb[n][1] # FRecip(FromLin(2000))

(***************************************************************************)
(* Properties of the alignment components.                                 *)
(***************************************************************************)
\* C19 as stated: every strength a component hands to
\* axes_correlated_with_input_vector lies in [-0.99, 0.99], whether it
\* comes from the component's parameter or from a table column.
C19_AsStated ==
    (component # "none" /\ outer = "input_vector") =>
        \A i \in 1..Len(p) : p[i] >= 0 - 990 /\ p[i] <= 990

\* C20: the constructor raises ValueError for a prim_gal_axis that is not
\* 'major', 'intermediate' or 'minor' and builds nothing; for these three
\* the correlated vectors A_v come back (or go to the table) as the major,
\* the intermediate and the minor axis respectively, B_v and C_v filling the
\* other two places in this order.
C20_PrimGalAxis ==
    /\ [][caller' = "__init__" =>
            IF fnIn'.prim_gal_axis \in {"major", "intermediate", "minor"}
            THEN /\ component' = "CentralAlignment" /\ pc' = "idle"
                 /\ (fnIn'.prim_gal_axis = "major") <=> (prim_gal_axis' = "A")
                 /\ (fnIn'.prim_gal_axis = "intermediate")
                        <=> (prim_gal_axis' = "B")
                 /\ (fnIn'.prim_gal_axis = "minor") <=> (prim_gal_axis' = "C")
            ELSE /\ pc' = "raised" /\ raised' = "ValueError: prim_gal_axis"
                 /\ component' = "none"
         ]_vars
    /\ [][pc' = "returned" => (pc = "done" /\ A_v' = out)]_vars
    /\ []((component = "CentralAlignment" /\ pc = "returned") =>
            /\ A_v # <<>>
            /\ prim_gal_axis = "A" =>
                  (major_v = A_v /\ inter_v = B_v /\ minor_v = C_v)
            /\ prim_gal_axis = "B" =>
                  (inter_v = A_v /\ major_v = B_v /\ minor_v = C_v)
            /\ prim_gal_axis = "C" =>
                  (minor_v = A_v /\ major_v = B_v /\ inter_v = C_v)
            /\ Len(A_v) = Len(input_vectors)
            /\ IF kwargs.mode = "kwargs"
               THEN out = <<major_v, inter_v, minor_v>>
               ELSE \A i \in 1..Len(A_v) :
                      (out.gal_type = <<>> \/ out.gal_type[i] = "centrals")
                      => /\ out.galaxy_axisA[i] = major_v[i]
                         /\ out.galaxy_axisB[i] = inter_v[i]
                         /\ out.galaxy_axisC[i] = minor_v[i])

\* C20 witness: a component built with 'intermediate' has returned three
\* different finite axes for a galaxy, A_v as the intermediate one.
C20_Witness ==
    /\ component = "CentralAlignment" /\ pc = "returned"
    /\ prim_gal_axis = "B" /\ kwargs.mode = "kwargs"
    /\ inter_v = A_v /\ major_v = B_v
    /\ \A c \in 1..3 : IsFinite(A_v[1][c]) /\ IsFinite(C_v[1][c])
    /\ major_v[1] # inter_v[1] /\ minor_v[1] # inter_v[1]
    /\ major_v[1] # minor_v[1]

(***************************************************************************)
(* Bookkeeping of the rejection loop.                                      *)
(***************************************************************************)
\* C26 as stated: at the start of every loop round n_sucess + n_remaining
\* = size, kk has n_remaining elements, and the positions not marked done
\* in mask are n_remaining in number.
C26_AsStated ==
    (pc = "loop" /\ LoopCond) =>
        /\ n_sucess + n_remaining = size
        /\ Len(kk) = n_remaining
        /\ Count(Not(mask)) = n_remaining

(***************************************************************************)
(* The strength models.                                                    *)
(***************************************************************************)
StrengthCalled ==
    /\ pc = "done"
    /\ caller \in {"alignment_strength_mass_dependence",
                   "alignment_strength_radial_dependence"}

\* C22: both strength functions return one value per input element; where
\* the formula value is a number the value returned lies in [-0.99, 0.99]:
\* -0.99 for a formula value below -0.99, 0.99 for one above 0.99, the
\* formula value itself otherwise; the input array is left as it was.
C22_Clamped ==
    StrengthCalled =>
        /\ Len(out) = Len(fnIn.x)
        /\ fnOut.x = fnIn.x
        /\ \A i \in 1..Len(out) :
              LET v == fnOut.formula[i]
              IN  v # nan =>
                    /\ out[i] >= 0 - 990 /\ out[i] <= 990
                    /\ v < 0 - 990 => out[i] = 0 - 990
                    /\ v > 990 => out[i] = 990
                    /\ (v >= 0 - 990 /\ v <= 990) => out[i] = v

\* C22 witness: one call has returned 0.99 for a formula value above it and
\* -0.99 for a formula value below it.
C22_Witness ==
    /\ StrengthCalled /\ Len(out) = 2
    /\ fnOut.formula[1] > 990 /\ out[1] = 990
    /\ fnOut.formula[2] < 0 - 990 /\ out[2] = 0 - 990

(***************************************************************************)
(* Table mode of the assign methods.                                       *)
(***************************************************************************)
TableReturned == pc = "returned" /\ kwargs.mode # "kwargs"

\* row i of the table is one of the component's galaxies
OwnRow(i) == table.gal_type = <<>> \/ table.gal_type[i] = gal_type

\* C24: a call in table mode returns the table; the galaxy_axis columns
\* hold the new axes in the rows whose gal_type is the component's, and in
\* every row when the table has no gal_type column; every other row holds
\* what it held before the call, 0.0 when the column had to be created (the
\* tables hold the galaxy_axisA columns and lack the others).
C24_TableFrame ==
    TableReturned =>
        /\ out = table
        /\ \A i \in 1..Len(major_v) :
              IF OwnRow(i)
              THEN /\ table.galaxy_axisA[i] = major_v[i]
                   /\ table.galaxy_axisB[i] = inter_v[i]
                   /\ table.galaxy_axisC[i] = minor_v[i]
              ELSE /\ table.galaxy_axisA[i] = PriorAxis
                   /\ table.galaxy_axisB[i] = <<0, 0, 0>>
                   /\ table.galaxy_axisC[i] = <<0, 0, 0>>

\* C24 witness: a table of two rows, the first of the component's gal_type
\* and the second not, has come back with new axes in the first row and the
\* earlier values in the second, where the new axes differ from them.
C24_Witness ==
    /\ TableReturned /\ Len(major_v) = 2
    /\ table.gal_type # <<>> /\ OwnRow(1) /\ ~OwnRow(2)
    /\ \A i \in 1..2, c \in 1..3 :
          IsFinite(major_v[i][c]) /\ IsFinite(inter_v[i][c])
    /\ table.galaxy_axisA[1] = major_v[1] /\ major_v[1] # PriorAxis
    /\ table.galaxy_axisB[1] = inter_v[1] /\ inter_v[1] # <<0, 0, 0>>
    /\ table.galaxy_axisA[2] = PriorAxis /\ major_v[2] # PriorAxis
    /\ table.galaxy_axisB[2] = <<0, 0, 0>> /\ inter_v[2] # <<0, 0, 0>>

(***************************************************************************)
(* RadialSatelliteAlignment.                                               *)
(***************************************************************************)
\* C21 as stated: assign_satellite_orientation called without a table, the
\* positions and Lbox given as keywords, ends without an exception.
C21_AsStated ==
    (component = "RadialSatelliteAlignment"
        /\ caller = "assign_satellite_orientation"
        /\ kwargs.mode = "kwargs" /\ kwargs.Lbox # <<>>) => pc # "raised"

\* assign_satellite_orientation has computed the radial vectors
RadialStepDone ==
    /\ component = "RadialSatelliteAlignment"
    /\ caller \in {"axes", "assign_satellite_orientation"}
    /\ r # <<>>

\* the number of radial vectors whose length is <= 0 or not finite
NDegenerate == Cardinality({i \in 1..Len(r) : r[i] <= 0 \/ ~IsFinite(r[i])})

ZeroWarnings ==
    {j \in 1..Len(warnings) :
        warnings[j].msg = "radial distance equal to zero"}

\* C23: in assign_satellite_orientation the batch handed to
\* axes_correlated_with_input_vector holds a drawn random vector in every
\* row whose radial length is <= 0 or not finite and the radial vector
\* itself in every other row; one warning carrying the number of replaced
\* rows is issued when there is such a row, none otherwise.
C23_DegenerateReplaced ==
    RadialStepDone =>
        /\ outer = "input_vector" =>
              /\ Len(input_vectors) = Len(r_vec)
              /\ \A i \in 1..Len(r_vec) :
                    IF r[i] <= 0 \/ ~IsFinite(r[i])
                    THEN /\ input_vectors[i] \in ReplaceVals
                         /\ input_vectors[i] # r_vec[i]
                    ELSE input_vectors[i] = r_vec[i]
        /\ IF NDegenerate > 0
           THEN /\ Cardinality(ZeroWarnings) = 1
                /\ \A j \in ZeroWarnings : warnings[j].n = NDegenerate
           ELSE ZeroWarnings = {}

\* C23 witness: a batch of two with one zero-length radial vector has been
\* handed on, the zero row replaced and the other row as it was, with the
\* warning for one galaxy.
C23_Witness ==
    /\ RadialStepDone /\ outer = "input_vector" /\ Len(r) = 2
    /\ r[1] = 0 /\ r_vec[1] = <<0, 0, 0>> /\ input_vectors[1] \in ReplaceVals
    /\ r[2] > 0 /\ IsFinite(r[2]) /\ input_vectors[2] = r_vec[2]
    /\ \E j \in ZeroWarnings : warnings[j].n = 1

GetRadialReturned == caller = "get_radial_vector" /\ pc = "done"

\* the box of the call
BoxOfCall == IF fnIn.Lbox = <<>> THEN _Lbox ELSE fnIn.Lbox

\* C25: get_radial_vector returns (r_vec, r) and leaves its coordinate
\* arrays as they were; along an axis of box length L > 0 with both
\* coordinates in [0, L] the component of r_vec is x - halo_x shifted by
\* one of -L, 0, +L and lies in [-L/2, L/2]; r is the Euclidean length of
\* the row of r_vec (rounded down to the thousandth).
C25_PeriodicWrap ==
    GetRadialReturned =>
        /\ out = <<r_vec, r>>
        /\ fnOut.x = fnIn.x /\ fnOut.halo = fnIn.halo
        /\ Len(r_vec) = Len(fnIn.x) /\ Len(r) = Len(fnIn.x)
        /\ \A i \in 1..Len(r_vec) :
              /\ \A c \in 1..3 :
                    LET L == BoxOfCall[c]
                        x == fnIn.x[i][c]
                        h == fnIn.halo[i][c]
                        d == r_vec[i][c]
                    IN  (L > 0 /\ x >= 0 /\ x <= L /\ h >= 0 /\ h <= L) =>
                          /\ d \in {x - h - L, x - h, x - h + L}
                          /\ 2 * d >= 0 - L /\ 2 * d <= L
              /\ LET sq == r_vec[i][1] * r_vec[i][1]
                             + r_vec[i][2] * r_vec[i][2]
                             + r_vec[i][3] * r_vec[i][3]
                 IN  /\ r[i] * r[i] <= sq
                     /\ sq - 3000 < (r[i] + 1) * (r[i] + 1)

\* C25 witness: one call has returned a component moved down by L in its
\* first row and a component moved up by L in its second, both galaxies
\* and haloes inside the box.
C25_Witness ==
    /\ GetRadialReturned /\ Len(r_vec) = 2
    /\ \A i \in 1..2, c \in 1..3 :
          /\ fnIn.x[i][c] >= 0 /\ fnIn.x[i][c] <= BoxOfCall[c]
          /\ fnIn.halo[i][c] >= 0 /\ fnIn.halo[i][c] <= BoxOfCall[c]
    /\ r_vec[1][1] = fnIn.x[1][1] - fnIn.halo[1][1] - BoxOfCall[1]
    /\ r_vec[2][1] = fnIn.x[2][1] - fnIn.halo[2][1] + BoxOfCall[1]
    /\ r[1] > 0 /\ r[2] > 0

====
